---- MODULE Spec2Model ----
\* Model of the chat pipeline of the GA4 team chat server:
\*   server/index.js   POST /api/chat  (orchestrator)
\*   server/groq.js, gemini.js   processQuery  (interpreter and formatter)
\*   server/ga4.js     queryGA4  (analytics executor)
EXTENDS Integers, Sequences, FiniteSets, TLC

VARIABLES
    provider,        \* process.env.AI_PROVIDER, selects groq.js or gemini.js
    nodeEnv,         \* process.env.NODE_ENV
    gaCredentials,   \* process.env.GA_CREDENTIALS_JSON: "unset", "valid", "invalid"
    client,          \* module variable `client` of the completion provider
    analyticsClient, \* module variable `analyticsClient` of ga4.js
    pc,              \* position of the /api/chat handler
    message,         \* req.body.message
    history,         \* req.body.history
    sent,            \* the completion request built by the last processQuery call
    text,            \* raw text of the completion response being parsed
    ga4Params,       \* result of processQuery(message, history)
    ga4Data,         \* result of queryGA4(ga4Params)
    aiErr,           \* message of the error the completion API failed with
    gaErr,           \* message of the error runReport failed with
    caught,          \* err.message seen by the handler's catch block
    responses,       \* the responses the handler sent, in order
    trace,           \* stage calls and their outcomes for the current request
    completionCalls, \* completion API calls issued for the current request
    reportCalls,     \* runReport calls issued for the current request
    request,         \* the request queryGA4 passed to runReport
    report,          \* the response runReport resolved with
    teamToken,       \* process.env.TEAM_ACCESS_TOKEN, "" when not configured
    authReq,         \* the request authMiddleware is given
    authResult,      \* what authMiddleware did with it
    built,           \* per handle, how many times its constructor has run
    handed,          \* per handle, the objects getClient has returned so far
    reqs             \* position of each concurrently handled request

vars == <<provider, nodeEnv, gaCredentials, client, analyticsClient, pc, message,
          history, sent, text, ga4Params, ga4Data, aiErr, gaErr, caught,
          responses, trace, completionCalls, reportCalls,
          request, report, teamToken, authReq, authResult,
          built, handed, reqs>>

\* ---------------------------------------------------------------------------
\* Bounds of the model
MaxReplyLen == 3     \* tokens of a completion reply in the pipeline
MaxTextLen == 5      \* tokens of a reply text given to the parser alone
MaxHist == 10        \* entries of a history given to the request builder alone
MaxErrWords == 2     \* words of a provider error message
MaxMetrics == 2      \* metrics of a query spec, metric values of a remote row

\* Program constants
HistoryWindow == 8
MaxMessageLength == 2000

Min(a, b) == IF a < b THEN a ELSE b
Max(a, b) == IF a > b THEN a ELSE b

Range(q) == {q[i] : i \in 1..Len(q)}

SeqsUpTo(S, n) == UNION {[1..k -> S] : k \in 0..n}

\* ---------------------------------------------------------------------------
\* JavaScript values
Undef == [t |-> "undefined", v |-> <<>>]
Null == [t |-> "null", v |-> <<>>]
Num == [t |-> "number", v |-> <<>>]
Str(s) == [t |-> "string", v |-> s]
Obj(r) == [t |-> "object", v |-> r]
Number(n) == [t |-> "number", v |-> n]

\* ToBoolean(x): the empty string, undefined and null are falsy
Truthy(x) ==
    CASE x.t = "string" -> Len(x.v) > 0
      [] x.t = "object" -> TRUE
      [] x.t = "number" -> x # Number(0)
      [] x.t = "array" -> TRUE
      [] OTHER -> FALSE

Some(x) == <<x>>
None == <<>>

\* ---------------------------------------------------------------------------
\* Strings as token sequences.  A completion reply is a sequence of these
\* tokens: braces, comma, a prose word, and four JSON members.
LB == "{"
RB == "}"
Comma == ","
Word == "w"
TypeText == "\"type\":\"text\""
TypeQuery == "\"type\":\"ga4_query\""
ContentHi == "\"content\":\"hi\""
ErrorOops == "\"error\":\"oops\""

Members == {TypeText, TypeQuery, ContentHi, ErrorOops}
Tokens == {LB, RB, Comma, Word} \cup Members

\* text.match(/\{[\s\S]*\}/) : from the first "{" to the last "}" after it
FirstLB(s) == CHOOSE i \in 1..Len(s) : s[i] = LB /\ \A k \in 1..(i-1) : s[k] # LB
LastRB(s) == CHOOSE j \in 1..Len(s) : s[j] = RB /\ \A k \in (j+1)..Len(s) : s[k] # RB

HasMatch(s) ==
    /\ \E i \in 1..Len(s) : s[i] = LB
    /\ \E j \in 1..Len(s) : s[j] = RB
    /\ FirstLB(s) < LastRB(s)

JsonMatchLazy(s) ==
    LET i == FirstLB(s)
        j == CHOOSE k \in (i+1)..Len(s) : s[k] = RB /\ \A m \in (i+1)..(k-1) : s[m] # RB
    IN  SubSeq(s, i, j)

JsonMatch(s) == SubSeq(s, FirstLB(s), LastRB(s))

\* JSON.parse accepts an object text: "{" members separated by commas "}"
ValidJson(m) ==
    /\ Len(m) >= 2
    /\ m[1] = LB
    /\ m[Len(m)] = RB
    /\ LET body == SubSeq(m, 2, Len(m) - 1)
       IN  \/ Len(body) = 0
           \/ /\ Len(body) % 2 = 1
              /\ \A i \in 1..Len(body) :
                    IF i % 2 = 1 THEN body[i] \in Members ELSE body[i] = Comma

EmptyObject == [type |-> Undef, content |-> Undef, error |-> Undef]

SetMember(o, tok) ==
    CASE tok = TypeText -> [o EXCEPT !.type = Str(<<"text">>)]
      [] tok = TypeQuery -> [o EXCEPT !.type = Str(<<"ga4_query">>)]
      [] tok = ContentHi -> [o EXCEPT !.content = Str(<<"hi">>)]
      [] tok = ErrorOops -> [o EXCEPT !.error = Str(<<"oops">>)]
      [] OTHER -> o

\* JSON.parse of a valid object text: members in order, a later one overrides
RECURSIVE ParseMembers(_, _)
ParseMembers(body, o) ==
    IF Len(body) = 0 THEN o
    ELSE ParseMembers(Tail(body), SetMember(o, Head(body)))

JsonParse(m) == ParseMembers(SubSeq(m, 2, Len(m) - 1), EmptyObject)

\* { type: "text", content: text }
TextResult(s) == [type |-> Str(<<"text">>), content |-> Str(s), error |-> Undef]
\* { error: msg }
ErrorResult(s) == [type |-> Undef, content |-> Undef, error |-> Str(s)]

\* processQuery, after the completion call resolved with `s`
ParseResponse(s, isFormatting) ==
    IF isFormatting THEN TextResult(s)
    ELSE IF ~HasMatch(s) THEN TextResult(s)
    ELSE IF ~ValidJson(JsonMatch(s)) THEN TextResult(s)
    ELSE JsonParse(JsonMatch(s))

\* ---------------------------------------------------------------------------
\* Error messages of the remote services, as sequences of words
AiErrWords == {"API", "key", "API_KEY", "api", "timeout"}
GaErrWords == {"permission", "Permission", "PERMISSION", "DENIED", "not", "found"}

AiErrors == SeqsUpTo(AiErrWords, MaxErrWords)
GaErrors == SeqsUpTo(GaErrWords, MaxErrWords)

\* the needles a word contains as a substring (case-sensitive)
Fragments(w) == IF w = "API_KEY" THEN {"API_KEY", "API"} ELSE {w}

\* String.prototype.includes: needle occurs contiguously, case-sensitive
Includes(msg, needle) ==
    \E i \in 1..(Len(msg) - Len(needle) + 1) :
        \A k \in 1..Len(needle) : needle[k] \in Fragments(msg[i + k - 1])

\* groq.js: err.message.includes("API") || err.message.includes("key")
\* gemini.js: err.message.includes("API_KEY") || err.message.includes("api key")
LooksLikeKeyError(prov, msg) ==
    IF prov = "groq"
    THEN Includes(msg, <<"API">>) \/ Includes(msg, <<"key">>)
    ELSE Includes(msg, <<"API_KEY">>) \/ Includes(msg, <<"api", "key">>)

KeyNotConfigured(prov) ==
    IF prov = "groq"
    THEN <<"Groq API key not configured. Please set GROQ_API_KEY in .env">>
    ELSE <<"Gemini API key not configured. Please set GEMINI_API_KEY in .env">>

\* the catch block of processQuery
ClassifyAiError(prov, msg) ==
    IF LooksLikeKeyError(prov, msg)
    THEN ErrorResult(KeyNotConfigured(prov))
    ELSE ErrorResult(<<"AI processing failed: ">> \o msg)

PermissionDenied == <<"Permission denied. Check service account access in GA4.">>
PropertyNotFound == <<"Property ", "GA4_PROPERTY_ID", " not found. Check your GA4_PROPERTY_ID.">>

\* the catch block of queryGA4: the message of the error it throws
ClassifyGa4Error(msg) ==
    IF Includes(msg, <<"permission">>) THEN PermissionDenied
    ELSE IF Includes(msg, <<"not", "found">>) THEN PropertyNotFound
    ELSE msg

\* ---------------------------------------------------------------------------
\* processQuery: the completion request
MessageLens == {0, 1, MaxMessageLength, MaxMessageLength + 1}
UserText(n) == [t |-> "string", len |-> n, of |-> "user"]

\* req.body.message: missing, a number, or a string of some length
Messages == {[t |-> "undefined", len |-> 0, of |-> "user"],
             [t |-> "number", len |-> 0, of |-> "user"]}
            \cup {UserText(n) : n \in MessageLens}

HistoryEntries == {[role |-> "user", content |-> UserText(1)],
                   [role |-> "assistant", content |-> UserText(2)],
                   [role |-> "system", content |-> UserText(3)]}

\* history.slice(-8)
RecentFirst(h) == SubSeq(h, 1, Min(HistoryWindow, Len(h)))

RecentHistory(h) == SubSeq(h, Max(Len(h) - HistoryWindow, 0) + 1, Len(h))

AssistantRole(prov) == IF prov = "groq" THEN "assistant" ELSE "model"

Turn(prov, msg) ==
    [role |-> IF msg.role = "user" THEN "user" ELSE AssistantRole(prov),
     content |-> msg.content]

SystemPrompt(isFormatting) ==
    IF isFormatting THEN "FORMAT_SYSTEM_PROMPT" ELSE "SYSTEM_PROMPT"

\* groq.js puts the system prompt first in `messages`; gemini.js passes it as
\* config.systemInstruction
BuildRequest(prov, msg, h, isFormatting) ==
    LET recent == RecentHistory(h)
        turns == [i \in 1..Len(recent) |-> Turn(prov, recent[i])]
                 \o <<[role |-> "user", content |-> msg]>>
    IN  IF prov = "groq"
        THEN [messages |-> <<[role |-> "system",
                              content |-> SystemPrompt(isFormatting)]>> \o turns,
              systemInstruction |-> "none"]
        ELSE [messages |-> turns,
              systemInstruction |-> SystemPrompt(isFormatting)]

NoRequest == [messages |-> <<>>, systemInstruction |-> "none"]

\* the prompt of the formatting call embeds the question, the query and the data
FormatPrompt(msg) == [t |-> "string", len |-> msg.len, of |-> "format"]

\* ---------------------------------------------------------------------------
\* req.body.history: missing, null, or an array of entries
Arr(h) == [t |-> "array", v |-> h]
Histories == {Undef, Null} \cup {Arr(h) : h \in SeqsUpTo(HistoryEntries, 1)}

\* const { message, history = [] } = req.body
DefaultHistory(h) == IF h.t = "undefined" THEN Arr(<<>>) ELSE h

\* history.slice(-8) is outside the try block: a TypeError when not an array
SliceThrows(h) == DefaultHistory(h).t # "array"
SliceTypeError == <<"Cannot read properties of null (reading 'slice')">>

\* !message || typeof message !== "string"
MessageRequired(m) == ~(m.t = "string" /\ m.len > 0)
MessageTooLongOffByOne(m) == m.len >= MaxMessageLength

MessageTooLong(m) == m.len > MaxMessageLength

\* ---------------------------------------------------------------------------
\* Response bodies of POST /api/chat
Body(status, type, content, rawData, query, error, details) ==
    [status |-> status, type |-> type, content |-> content, rawData |-> rawData,
     query |-> query, error |-> error, details |-> details]

BadRequest(m) ==
    Body(400, "none", Undef, Undef, Undef,
         IF MessageRequired(m) THEN Str(<<"Message is required">>)
         ELSE Str(<<"Message too long (max 2000 chars)">>), Undef)

TextPayload(content) == Body(200, "text", content, Undef, Undef, Undef, Undef)

\* content: response.content || response
AnalyticsSwapped(response, data, params) ==
    Body(200, "analytics",
         IF Truthy(response.content) THEN response.content ELSE Obj(response),
         params, data, Undef, Undef)

AnalyticsPayload(response, data, params) ==
    Body(200, "analytics",
         IF Truthy(response.content) THEN response.content ELSE Obj(response),
         data, params, Undef, Undef)

GenericFailure == <<"Failed to process your query. Please try again.">>

FailureAlwaysDetailed(env, msg) ==
    Body(500, "none", Undef, Undef, Undef, Str(GenericFailure), Str(msg))

\* the catch block of the handler
FailurePayload(env, msg) ==
    Body(500, "none", Undef, Undef, Undef, Str(GenericFailure),
         IF env = "development" THEN Str(msg) ELSE Undef)

\* the branch the handler takes on the interpreter's result
NextStepIgnoringText(r) ==
    IF Truthy(r.error) THEN "error" ELSE "execute"

NextStep(r) ==
    IF Truthy(r.error) THEN "error"
    ELSE IF r.type = Str(<<"text">>) THEN "text"
    ELSE "execute"

\* ---------------------------------------------------------------------------
\* getClient of the completion provider and of ga4.js
NumRequests == 2
RequestIds == 1..NumRequests
HandleKinds == {"completion", "analytics"}

\* `let client = null`
NoHandle == <<>>
\* the object the n-th run of a constructor returns
Construct(kind, n) == <<kind, n>>

GetClientUncached(kind, current, count) ==
    [handle |-> Construct(kind, count + 1), count |-> count + 1]

\* if (client) return client; client = new ...; return client;
GetClient(kind, current, count) ==
    IF current # NoHandle
    THEN [handle |-> current, count |-> count]
    ELSE [handle |-> Construct(kind, count + 1), count |-> count + 1]

NoneBuilt == [k \in HandleKinds |-> 0]
NoneHanded == [k \in HandleKinds |-> {}]
AllIdle == [i \in RequestIds |-> "idle"]

\* const groq = getClient() in processQuery
CallGetClient ==
    LET got == GetClient("completion", client, built["completion"]) IN
    /\ client' = got.handle
    /\ built' = [built EXCEPT !["completion"] = got.count]
    /\ handed' = [handed EXCEPT !["completion"] = @ \cup {got.handle}]

\* const client = getClient() in queryGA4
CallGetAnalyticsClient ==
    LET got == GetClient("analytics", analyticsClient, built["analytics"]) IN
    /\ analyticsClient' = got.handle
    /\ built' = [built EXCEPT !["analytics"] = got.count]
    /\ handed' = [handed EXCEPT !["analytics"] = @ \cup {got.handle}]

\* ---------------------------------------------------------------------------
\* queryGA4
InvalidCredentials == <<"Invalid GA_CREDENTIALS_JSON format">>

\* getClient of ga4.js throws when GA_CREDENTIALS_JSON does not parse; the file
\* path and GA4_PROPERTY_ID are checked to be set when the server starts
GetAnalyticsClientThrows == analyticsClient = NoHandle /\ gaCredentials = "invalid"

\* o.f of an object that may lack the field
GetField(o, f) == IF f \in DOMAIN o THEN o[f] ELSE Undef

\* q[i - 1] of a JavaScript array: undefined past the end
At(q, i) == IF i \in 1..Len(q) THEN Some(q[i]) ELSE None

DefaultedIfFalsy(x, d) == IF Truthy(x) THEN x ELSE d

\* a destructuring default applies to undefined only
Defaulted(x, d) == IF x = Undef THEN d ELSE x

\* const { dimensions = ["date"], metrics = [...], ... } = params
Destructure(params) ==
    [dimensions |-> Defaulted(GetField(params, "dimensions"), [t |-> "array", v |-> <<"date">>]).v,
     metrics |-> Defaulted(GetField(params, "metrics"),
                           [t |-> "array", v |-> <<"totalUsers", "sessions">>]).v,
     startDate |-> Defaulted(GetField(params, "startDate"), Str(<<"7daysAgo">>)),
     endDate |-> Defaulted(GetField(params, "endDate"), Str(<<"yesterday">>)),
     limit |-> Defaulted(GetField(params, "limit"), Number(100)),
     dimensionFilter |-> Defaulted(GetField(params, "dimensionFilter"), Null),
     orderBys |-> Defaulted(GetField(params, "orderBys"), Null)]

\* the request object passed to client.runReport
BuildReportRequest(params) ==
    LET d == Destructure(params)
    IN  [property |-> <<"properties/", "GA4_PROPERTY_ID">>,
         dateRanges |-> <<[startDate |-> d.startDate, endDate |-> d.endDate]>>,
         dimensions |-> [i \in 1..Len(d.dimensions) |-> [name |-> d.dimensions[i]]],
         metrics |-> [i \in 1..Len(d.metrics) |-> [name |-> d.metrics[i]]],
         limit |-> d.limit,
         dimensionFilter |-> IF Truthy(d.dimensionFilter) THEN d.dimensionFilter ELSE Undef,
         orderBys |-> IF Truthy(d.orderBys) /\ Len(d.orderBys.v) > 0
                      THEN d.orderBys.v
                      ELSE <<[metric |-> [metricName |-> At(d.metrics, 1)],
                              desc |-> TRUE]>>]

\* the strings that denote numbers among the metric values of the model
Numeric == ("0" :> 0) @@ ("7" :> 7) @@ ("10" :> 10)
IsNaN(val) == val \notin DOMAIN Numeric

\* row.metricValues[i]?.value || "0", then isNaN(val) ? val : parseFloat(val)
ParseMetric(raw) ==
    LET val == IF raw = None \/ raw = Some("") THEN "0" ELSE raw[1]
    IN  IF IsNaN(val) THEN Str(<<val>>) ELSE Number(Numeric[val])

\* row.dimensionValues[i]?.value || ""
ParseDimension(raw) == IF raw = None THEN Str(<<"">>) ELSE Str(<<raw[1]>>)

LastIndex(q, k) == CHOOSE i \in 1..Len(q) : q[i] = k /\ \A j \in (i+1)..Len(q) : q[j] # k

MetricsReversed(metrics, values) ==
    [k \in Range(metrics) |->
        ParseMetric(At(values, Len(metrics) + 1 - LastIndex(metrics, k)))]

\* metrics.forEach((met, i) => parsed[met] = ...): a later metric of the same
\* name overwrites the earlier one
ParseMetrics(metrics, values) ==
    [k \in Range(metrics) |-> ParseMetric(At(values, LastIndex(metrics, k)))]

\* the object built for one row: dimensions first, then metrics
ParseRow(dimensions, metrics, row) ==
    LET mets == ParseMetrics(metrics, row.metricValues)
    IN  [k \in Range(dimensions) \cup Range(metrics) |->
            IF k \in Range(metrics) THEN mets[k]
            ELSE ParseDimension(At(row.dimensionValues, LastIndex(dimensions, k)))]

\* the value queryGA4 returns for a resolved runReport
QueryResult(params, response) ==
    LET d == Destructure(params)
        rows == [i \in 1..Len(response.rows) |->
                    ParseRow(d.dimensions, d.metrics, response.rows[i])]
    IN  [rows |-> rows,
         totals |-> IF Len(response.totals) > 0
                    THEN ParseMetrics(d.metrics, response.totals[1].metricValues)
                    ELSE <<>>,
         metadata |-> [rowCount |-> IF response.rowCount # 0 THEN response.rowCount
                                    ELSE Len(rows),
                       dimensions |-> d.dimensions,
                       metrics |-> d.metrics,
                       dateRange |-> [startDate |-> d.startDate, endDate |-> d.endDate],
                       propertyId |-> "GA4_PROPERTY_ID"]]

\* remote responses: rows (absent rows read as none), totals, rowCount
\* (0 when absent)
Report(rows, totals, rowCount) == [rows |-> rows, totals |-> totals, rowCount |-> rowCount]
RemoteRow(dims, mets) == [dimensionValues |-> dims, metricValues |-> mets]

Reports == {Report(<<>>, <<>>, 0),
            Report(<<RemoteRow(<<"20260101">>, <<"10", "7">>)>>, <<>>, 1)}

\* ---------------------------------------------------------------------------
\* POST /api/chat
FinishTwice(resp, tr, err) ==
    /\ pc' = "done"
    /\ responses' = responses \o <<resp, resp>>
    /\ trace' = tr
    /\ caught' = err

\* the handler sends `resp` and returns
Finish(resp, tr, err) ==
    /\ pc' = "done"
    /\ responses' = Append(responses, resp)
    /\ trace' = tr
    /\ caught' = err

Env == <<provider, nodeEnv, gaCredentials>>
AuthVars == <<teamToken, authReq, authResult>>
ClientVars == <<built, handed, reqs>>

\* validation rejects the message
ChatRejected(msg, hist) ==
    /\ pc = "idle"
    /\ MessageRequired(msg) \/ MessageTooLong(msg)
    /\ message' = msg
    /\ history' = hist
    /\ Finish(BadRequest(msg), trace, caught)
    /\ UNCHANGED <<Env, client, analyticsClient, sent, text, ga4Params, ga4Data,
                   aiErr, gaErr>>
    /\ UNCHANGED <<completionCalls, reportCalls>>
    /\ UNCHANGED <<request, report>>
    /\ UNCHANGED AuthVars
    /\ UNCHANGED ClientVars

\* processQuery(message, history) throws before its try block
ChatInterpretThrows(msg, hist) ==
    /\ pc = "idle"
    /\ ~MessageRequired(msg)
    /\ ~MessageTooLong(msg)
    /\ SliceThrows(hist)
    /\ message' = msg
    /\ history' = hist
    /\ CallGetClient
    /\ UNCHANGED reqs
    /\ Finish(FailurePayload(nodeEnv, SliceTypeError),
              <<"interpret", "interpret.throw">>, Some(SliceTypeError))
    /\ UNCHANGED <<Env, analyticsClient, sent, text, ga4Params, ga4Data, aiErr, gaErr>>
    /\ UNCHANGED <<completionCalls, reportCalls>>
    /\ UNCHANGED <<request, report>>
    /\ UNCHANGED AuthVars

\* processQuery(message, history) issues the completion call
ChatInterpretStarts(msg, hist) ==
    /\ pc = "idle"
    /\ ~MessageRequired(msg)
    /\ ~MessageTooLong(msg)
    /\ ~SliceThrows(hist)
    /\ message' = msg
    /\ history' = hist
    /\ CallGetClient
    /\ UNCHANGED reqs
    /\ sent' = BuildRequest(provider, msg, DefaultHistory(hist).v, FALSE)
    /\ trace' = <<"interpret">>
    /\ pc' = "interpreting"
    /\ UNCHANGED <<Env, analyticsClient, text, ga4Params, ga4Data, aiErr, gaErr,
                   caught, responses>>
    /\ completionCalls' = completionCalls + 1
    /\ UNCHANGED reportCalls
    /\ UNCHANGED <<request, report>>
    /\ UNCHANGED AuthVars

\* the handler from the interpreter's result to its next await or response
AfterInterpret(r) ==
    /\ ga4Params' = Some(r)
    /\ CASE NextStep(r) = "error" ->
              /\ Finish(TextPayload(r.error), Append(trace, "interpret.ret"), caught)
              /\ UNCHANGED <<analyticsClient, built, handed>>
         [] NextStep(r) = "text" ->
              /\ Finish(TextPayload(r.content), Append(trace, "interpret.ret"), caught)
              /\ UNCHANGED <<analyticsClient, built, handed>>
         [] OTHER ->
              IF GetAnalyticsClientThrows
              THEN /\ Finish(FailurePayload(nodeEnv, InvalidCredentials),
                             trace \o <<"interpret.ret", "execute", "execute.throw">>,
                             Some(InvalidCredentials))
                   /\ UNCHANGED <<analyticsClient, built, handed>>
              ELSE /\ CallGetAnalyticsClient
                   /\ pc' = "executing"
                   /\ trace' = trace \o <<"interpret.ret", "execute">>
                   /\ UNCHANGED <<responses, caught>>
    /\ reportCalls' = IF pc' = "executing" THEN reportCalls + 1 ELSE reportCalls
    /\ UNCHANGED completionCalls
    /\ request' = IF pc' = "executing" THEN Some(BuildReportRequest(r)) ELSE request
    /\ UNCHANGED report

Replies == SeqsUpTo(Tokens, MaxReplyLen)
FormatReplies == SeqsUpTo(Tokens, 1)

InterpretOk(reply) ==
    /\ pc = "interpreting"
    /\ AfterInterpret(ParseResponse(reply, FALSE))
    /\ UNCHANGED <<Env, client, message, history, sent, text, ga4Data, aiErr, gaErr>>
    /\ UNCHANGED AuthVars
    /\ UNCHANGED reqs

InterpretFail(err) ==
    /\ pc = "interpreting"
    /\ aiErr' = Some(err)
    /\ AfterInterpret(ClassifyAiError(provider, err))
    /\ UNCHANGED <<Env, client, message, history, sent, text, ga4Data, gaErr>>
    /\ UNCHANGED AuthVars
    /\ UNCHANGED reqs

\* runReport resolved: rows are parsed and the formatting call is issued
ExecuteOk(rep) ==
    /\ pc = "executing"
    /\ ga4Data' = Some(QueryResult(ga4Params[1], rep))
    /\ report' = Some(rep)
    /\ UNCHANGED request
    /\ sent' = BuildRequest(provider, FormatPrompt(message), <<>>, TRUE)
    /\ trace' = trace \o <<"execute.ret", "format">>
    /\ pc' = "formatting"
    /\ CallGetClient
    /\ UNCHANGED <<Env, analyticsClient, message, history, text, ga4Params,
                   aiErr, gaErr, caught, responses, reqs>>
    /\ completionCalls' = completionCalls + 1
    /\ UNCHANGED reportCalls
    /\ UNCHANGED AuthVars

ExecuteFailRetrying(err) ==
    /\ pc = "executing"
    /\ gaErr' = Some(err)
    /\ IF reportCalls < 2
       THEN /\ reportCalls' = reportCalls + 1
            /\ UNCHANGED <<pc, responses, trace, caught>>
       ELSE /\ Finish(FailurePayload(nodeEnv, ClassifyGa4Error(err)),
                      Append(trace, "execute.throw"), Some(ClassifyGa4Error(err)))
            /\ UNCHANGED reportCalls
    /\ UNCHANGED <<Env, client, analyticsClient, message, history, sent, text,
                   ga4Params, ga4Data, aiErr, completionCalls>>
    /\ UNCHANGED <<request, report>>
    /\ UNCHANGED AuthVars
    /\ UNCHANGED ClientVars

\* runReport rejected: queryGA4 rethrows, the handler's catch answers
ExecuteFail(err) ==
    /\ pc = "executing"
    /\ gaErr' = Some(err)
    /\ Finish(FailurePayload(nodeEnv, ClassifyGa4Error(err)),
              Append(trace, "execute.throw"), Some(ClassifyGa4Error(err)))
    /\ UNCHANGED <<Env, client, analyticsClient, message, history, sent, text,
                   ga4Params, ga4Data, aiErr>>
    /\ UNCHANGED <<completionCalls, reportCalls>>
    /\ UNCHANGED <<request, report>>
    /\ UNCHANGED AuthVars
    /\ UNCHANGED ClientVars

FormatOk(reply) ==
    /\ pc = "formatting"
    /\ text' = reply
    /\ Finish(AnalyticsPayload(ParseResponse(reply, TRUE), ga4Data[1], ga4Params[1]),
              Append(trace, "format.ret"), caught)
    /\ UNCHANGED <<Env, client, analyticsClient, message, history, sent, ga4Params,
                   ga4Data, aiErr, gaErr>>
    /\ UNCHANGED <<completionCalls, reportCalls>>
    /\ UNCHANGED <<request, report>>
    /\ UNCHANGED AuthVars
    /\ UNCHANGED ClientVars

FormatFail(err) ==
    /\ pc = "formatting"
    /\ aiErr' = Some(err)
    /\ Finish(AnalyticsPayload(ClassifyAiError(provider, err), ga4Data[1], ga4Params[1]),
              Append(trace, "format.ret"), caught)
    /\ UNCHANGED <<Env, client, analyticsClient, message, history, sent, text,
                   ga4Params, ga4Data, gaErr>>
    /\ UNCHANGED <<completionCalls, reportCalls>>
    /\ UNCHANGED <<request, report>>
    /\ UNCHANGED AuthVars
    /\ UNCHANGED ClientVars

NoMessage == [t |-> "undefined", len |-> 0, of |-> "user"]

\* the next request of the same process: the client handles stay
NextRequest ==
    /\ pc = "done"
    /\ pc' = "idle"
    /\ message' = NoMessage
    /\ history' = Undef
    /\ sent' = NoRequest
    /\ text' = <<>>
    /\ ga4Params' = None
    /\ ga4Data' = None
    /\ aiErr' = None
    /\ gaErr' = None
    /\ caught' = None
    /\ responses' = <<>>
    /\ trace' = <<>>
    /\ UNCHANGED <<Env, client, analyticsClient>>
    /\ completionCalls' = 0
    /\ reportCalls' = 0
    /\ request' = None
    /\ report' = None
    /\ UNCHANGED AuthVars
    /\ UNCHANGED ClientVars

Init ==
    /\ provider \in {"groq", "gemini"}
    /\ nodeEnv \in {"development", "production"}
    /\ gaCredentials \in {"unset", "valid", "invalid"}
    /\ client = NoHandle
    /\ analyticsClient = NoHandle
    /\ built = NoneBuilt
    /\ handed = NoneHanded
    /\ reqs = AllIdle
    /\ pc = "idle"
    /\ message = NoMessage
    /\ history = Undef
    /\ sent = NoRequest
    /\ text = <<>>
    /\ ga4Params = None
    /\ ga4Data = None
    /\ aiErr = None
    /\ gaErr = None
    /\ caught = None
    /\ responses = <<>>
    /\ trace = <<>>
    /\ completionCalls = 0
    /\ reportCalls = 0
    /\ request = None
    /\ report = None
    /\ teamToken = ""
    /\ authReq = None
    /\ authResult = "none"

\* a request arrives with some body
Request ==
    /\ pc = "idle"
    /\ \E msg \in Messages, hist \in Histories :
          \/ ChatRejected(msg, hist)
          \/ ChatInterpretThrows(msg, hist)
          \/ ChatInterpretStarts(msg, hist)

\* the pending remote call resolves or rejects
InterpretReturns == pc = "interpreting" /\ \E reply \in Replies : InterpretOk(reply)
InterpretRejects == pc = "interpreting" /\ \E err \in AiErrors : InterpretFail(err)
ExecuteReturns == pc = "executing" /\ \E rep \in Reports : ExecuteOk(rep)
ExecuteRejects == pc = "executing" /\ \E err \in GaErrors : ExecuteFail(err)
FormatReturns == pc = "formatting" /\ \E reply \in FormatReplies : FormatOk(reply)
FormatRejects == pc = "formatting" /\ \E err \in AiErrors : FormatFail(err)

Next ==
    \/ Request
    \/ InterpretReturns
    \/ InterpretRejects
    \/ ExecuteReturns
    \/ ExecuteRejects
    \/ FormatReturns
    \/ FormatRejects
    \/ NextRequest

Spec == Init /\ [][Next]_vars

\* ---------------------------------------------------------------------------
\* The parser alone: every reply text up to MaxTextLen tokens is parsed
InitParse ==
    /\ Init
    /\ provider = "gemini"
    /\ nodeEnv = "production"
    /\ gaCredentials = "unset"

ParseOnly(reply) ==
    /\ pc = "idle"
    /\ text' = reply
    /\ ga4Params' = Some(ParseResponse(reply, FALSE))
    /\ pc' = "parsed"
    /\ UNCHANGED <<Env, client, analyticsClient, message, history, sent, ga4Data,
                   aiErr, gaErr, caught, responses, trace>>
    /\ UNCHANGED <<completionCalls, reportCalls>>
    /\ UNCHANGED <<request, report>>
    /\ UNCHANGED AuthVars
    /\ UNCHANGED ClientVars

NextParse == pc = "idle" /\ \E reply \in SeqsUpTo(Tokens, MaxTextLen) : ParseOnly(reply)

SpecParse == InitParse /\ [][NextParse]_vars

\* The request builder alone: every history up to MaxHist entries
InitHistory ==
    /\ Init
    /\ nodeEnv = "production"
    /\ gaCredentials = "unset"

BuildOnly(msg, h) ==
    /\ pc = "idle"
    /\ message' = msg
    /\ history' = Arr(h)
    /\ sent' = BuildRequest(provider, msg, h, FALSE)
    /\ pc' = "built"
    /\ UNCHANGED <<Env, client, analyticsClient, text, ga4Params, ga4Data,
                   aiErr, gaErr, caught, responses, trace>>
    /\ UNCHANGED <<completionCalls, reportCalls>>
    /\ UNCHANGED <<request, report>>
    /\ UNCHANGED AuthVars
    /\ UNCHANGED ClientVars

NextHistory ==
    pc = "idle" /\ \E h \in SeqsUpTo(HistoryEntries, MaxHist) : BuildOnly(UserText(1), h)

SpecHistory == InitHistory /\ [][NextHistory]_vars

\* queryGA4 alone: every query spec over the fields below, every remote
\* response of at most one row
MetricNames == {"sessions", "totalUsers"}
MetricValues == {"10", "7", "n/a", ""}

SessionsAscending == <<[metric |-> [metricName |-> Some("sessions")], desc |-> FALSE]>>

QuerySpecs ==
    [dimensions : {Undef, [t |-> "array", v |-> <<"country">>]},
     metrics : {Undef} \cup {[t |-> "array", v |-> m] : m \in SeqsUpTo(MetricNames, MaxMetrics)},
     startDate : {Undef, Str(<<"30daysAgo">>)},
     endDate : {Undef, Str(<<"today">>)},
     limit : {Undef, Number(0), Number(20)},
     orderBys : {Undef, [t |-> "array", v |-> <<>>], [t |-> "array", v |-> SessionsAscending]}]

RemoteRows ==
    {RemoteRow(d, m) : d \in {<<>>, <<"US">>}, m \in SeqsUpTo(MetricValues, MaxMetrics)}

RemoteReports ==
    {Report(rows, totals, n) :
        rows \in SeqsUpTo(RemoteRows, 1),
        totals \in {<<>>, <<RemoteRow(<<>>, <<"10">>)>>},
        n \in {0, 5}}

InitQuery ==
    /\ provider = "gemini"
    /\ nodeEnv = "production"
    /\ gaCredentials = "unset"
    /\ client = NoHandle
    /\ analyticsClient = NoHandle
    /\ built = NoneBuilt
    /\ handed = NoneHanded
    /\ reqs = AllIdle
    /\ pc = "idle"
    /\ message = NoMessage
    /\ history = Undef
    /\ sent = NoRequest
    /\ text = <<>>
    /\ ga4Params \in {Some(q) : q \in QuerySpecs}
    /\ ga4Data = None
    /\ aiErr = None
    /\ gaErr = None
    /\ caught = None
    /\ responses = <<>>
    /\ trace = <<>>
    /\ completionCalls = 0
    /\ reportCalls = 0
    /\ request = None
    /\ report = None
    /\ teamToken = ""
    /\ authReq = None
    /\ authResult = "none"

QueryOnly(rep) ==
    /\ pc = "idle"
    /\ CallGetAnalyticsClient
    /\ UNCHANGED reqs
    /\ request' = Some(BuildReportRequest(ga4Params[1]))
    /\ reportCalls' = reportCalls + 1
    /\ report' = Some(rep)
    /\ ga4Data' = Some(QueryResult(ga4Params[1], rep))
    /\ pc' = "queried"
    /\ UNCHANGED <<Env, client, message, history, sent, text, ga4Params, aiErr,
                   gaErr, caught, responses, trace, completionCalls>>
    /\ UNCHANGED AuthVars

NextQuery == pc = "idle" /\ \E rep \in RemoteReports : QueryOnly(rep)

SpecQuery == InitQuery /\ [][NextQuery]_vars

\* ---------------------------------------------------------------------------
\* authMiddleware, in front of /api/health, /api/chat, /api/query, /api/schema
ProtectedRoutes == {"/api/health", "/api/chat", "/api/query", "/api/schema"}
AccessTokens == {"t1", "t2"}
Bearer == "Bearer "

\* header.replace("Bearer ", ""): the first occurrence is removed
RECURSIVE ReplaceBearer(_)
ReplaceBearer(h) ==
    IF Len(h) = 0 THEN h
    ELSE IF Head(h) = Bearer THEN Tail(h)
    ELSE <<Head(h)>> \o ReplaceBearer(Tail(h))

\* req.headers.authorization?.replace("Bearer ", "") || req.query.token
Provided(req) ==
    IF req.authorization # None /\ ReplaceBearer(req.authorization[1]) # <<>>
    THEN Some(ReplaceBearer(req.authorization[1]))
    ELSE req.token

AuthPassesWhenMissing(token, provided) == provided = None \/ provided = Some(<<token>>)

\* provided === token
AuthPasses(token, provided) == provided = Some(<<token>>)

\* "handler" when next() is called, "401" when the middleware answers
AuthMiddleware(token, req) ==
    IF token = "" THEN "handler"
    ELSE IF ~AuthPasses(token, Provided(req)) THEN "401"
    ELSE "handler"

AuthHeaders == {None} \cup {Some(h) : h \in SeqsUpTo({Bearer} \cup AccessTokens, 2)}
QueryTokens == {None, Some(<<>>)} \cup {Some(<<t>>) : t \in AccessTokens}

InitAuth ==
    /\ provider = "gemini"
    /\ nodeEnv = "production"
    /\ gaCredentials = "unset"
    /\ client = NoHandle
    /\ analyticsClient = NoHandle
    /\ built = NoneBuilt
    /\ handed = NoneHanded
    /\ reqs = AllIdle
    /\ pc = "idle"
    /\ message = NoMessage
    /\ history = Undef
    /\ sent = NoRequest
    /\ text = <<>>
    /\ ga4Params = None
    /\ ga4Data = None
    /\ aiErr = None
    /\ gaErr = None
    /\ caught = None
    /\ responses = <<>>
    /\ trace = <<>>
    /\ completionCalls = 0
    /\ reportCalls = 0
    /\ request = None
    /\ report = None
    /\ teamToken \in {""} \cup AccessTokens
    /\ authReq = None
    /\ authResult = "none"

AuthRequest(route, header, token) ==
    /\ pc = "idle"
    /\ authReq' = Some([route |-> route, authorization |-> header, token |-> token])
    /\ authResult' = AuthMiddleware(teamToken, authReq'[1])
    /\ pc' = "authed"
    /\ UNCHANGED <<Env, client, analyticsClient, message, history, sent, text,
                   ga4Params, ga4Data, aiErr, gaErr, caught, responses, trace,
                   completionCalls, reportCalls, request, report, teamToken>>
    /\ UNCHANGED ClientVars

NextAuth ==
    /\ pc = "idle"
    /\ \E route \in ProtectedRoutes, header \in AuthHeaders, token \in QueryTokens :
          AuthRequest(route, header, token)

SpecAuth == InitAuth /\ [][NextAuth]_vars

\* ---------------------------------------------------------------------------
\* Several /api/chat requests in flight: each runs from one await to the next
\* without interruption, and the awaits of different requests interleave
HandlerVars == <<message, history, sent, text, ga4Params, ga4Data, aiErr, gaErr,
                 caught, responses, trace, completionCalls, reportCalls, request,
                 report>>
Steps == {"error", "text", "execute"}

InitConcurrent ==
    /\ provider \in {"groq", "gemini"}
    /\ nodeEnv = "production"
    /\ gaCredentials \in {"unset", "valid", "invalid"}
    /\ client = NoHandle
    /\ analyticsClient = NoHandle
    /\ built = NoneBuilt
    /\ handed = NoneHanded
    /\ reqs = AllIdle
    /\ pc = "idle"
    /\ message = NoMessage
    /\ history = Undef
    /\ sent = NoRequest
    /\ text = <<>>
    /\ ga4Params = None
    /\ ga4Data = None
    /\ aiErr = None
    /\ gaErr = None
    /\ caught = None
    /\ responses = <<>>
    /\ trace = <<>>
    /\ completionCalls = 0
    /\ reportCalls = 0
    /\ request = None
    /\ report = None
    /\ teamToken = ""
    /\ authReq = None
    /\ authResult = "none"

\* request i arrives: a rejected body is answered 400, any other reaches
\* processQuery, which takes the completion client and awaits the remote call
Arrives(i, valid) ==
    /\ reqs[i] = "idle"
    /\ IF valid
       THEN /\ CallGetClient
            /\ reqs' = [reqs EXCEPT ![i] = "interpreting"]
       ELSE /\ UNCHANGED <<client, built, handed>>
            /\ reqs' = [reqs EXCEPT ![i] = "done"]
    /\ UNCHANGED <<Env, analyticsClient, pc, HandlerVars, AuthVars>>

\* the interpreter's result is in: a query goes on to queryGA4, which takes
\* the analytics client and awaits runReport
Interpreted(i, step) ==
    /\ reqs[i] = "interpreting"
    /\ IF step = "execute" /\ ~GetAnalyticsClientThrows
       THEN /\ CallGetAnalyticsClient
            /\ reqs' = [reqs EXCEPT ![i] = "executing"]
       ELSE /\ UNCHANGED <<analyticsClient, built, handed>>
            /\ reqs' = [reqs EXCEPT ![i] = "done"]
    /\ UNCHANGED <<Env, client, pc, HandlerVars, AuthVars>>

\* runReport resolved or rejected: on data the handler calls processQuery
\* again for the summary, which takes the completion client again
Executed(i, ok) ==
    /\ reqs[i] = "executing"
    /\ IF ok
       THEN /\ CallGetClient
            /\ reqs' = [reqs EXCEPT ![i] = "formatting"]
       ELSE /\ UNCHANGED <<client, built, handed>>
            /\ reqs' = [reqs EXCEPT ![i] = "done"]
    /\ UNCHANGED <<Env, analyticsClient, pc, HandlerVars, AuthVars>>

\* the summary call settled and the response is sent
Formatted(i) ==
    /\ reqs[i] = "formatting"
    /\ reqs' = [reqs EXCEPT ![i] = "done"]
    /\ UNCHANGED <<Env, client, analyticsClient, built, handed, pc, HandlerVars,
                   AuthVars>>

\* the next request on the same connection
Answered(i) ==
    /\ reqs[i] = "done"
    /\ reqs' = [reqs EXCEPT ![i] = "idle"]
    /\ UNCHANGED <<Env, client, analyticsClient, built, handed, pc, HandlerVars,
                   AuthVars>>

NextConcurrent ==
    \E i \in RequestIds :
        \/ \E valid \in BOOLEAN : Arrives(i, valid)
        \/ \E step \in Steps : Interpreted(i, step)
        \/ \E ok \in BOOLEAN : Executed(i, ok)
        \/ Formatted(i)
        \/ Answered(i)

SpecConcurrent == InitConcurrent /\ [][NextConcurrent]_vars

\* ---------------------------------------------------------------------------
\* Properties

\* the three variants of an interpreter result
IsQuery(r) == r.type = Str(<<"ga4_query">>)
IsText(r) == r.type = Str(<<"text">>)
IsError(r) == r.error # Undef

Returned == "interpret.ret" \in Range(trace)

\* C1: when the interpreter returns a Text or an Error result, the request has
\* been answered (one 200 text response) and neither the executor nor the
\* formatter has been called for it.
C1_ShortCircuit ==
    (Returned /\ (IsText(ga4Params[1]) \/ IsError(ga4Params[1]))) =>
        /\ pc = "done"
        /\ Len(responses) = 1
        /\ responses[1].status = 200
        /\ responses[1].type = "text"
        /\ "execute" \notin Range(trace)
        /\ "format" \notin Range(trace)

C1_Witness ==
    /\ pc = "done"
    /\ Returned
    /\ IsText(ga4Params[1])
    /\ ga4Params[1] = TextResult(<<Word, LB, Word>>)
    /\ responses = <<TextPayload(Str(<<Word, LB, Word>>))>>

\* a stage is called only right after the previous stage returned
StagesInOrder ==
    \A i \in 1..Len(trace) :
        /\ trace[i] = "interpret" => i = 1
        /\ trace[i] = "execute" => (i > 1 /\ trace[i - 1] = "interpret.ret")
        /\ trace[i] = "format" => (i > 1 /\ trace[i - 1] = "execute.ret")

AllStages ==
    <<"interpret", "interpret.ret", "execute", "execute.ret", "format", "format.ret">>

\* C2: for a request whose interpreter result is a valid query, each stage is
\* called only after the previous one returned (interpret, execute, format),
\* and once the executor has returned a result the request ends with the
\* single response {type: "analytics", content, rawData, query} whose rawData
\* is the executor's result and whose query is the interpreter's result.
C2_SequentialPipeline ==
    (Returned /\ IsQuery(ga4Params[1]) /\ ~IsError(ga4Params[1])) =>
        /\ StagesInOrder
        /\ (pc = "done" /\ "execute.ret" \in Range(trace)) =>
              /\ trace = AllStages
              /\ Len(responses) = 1
              /\ responses[1].status = 200
              /\ responses[1].type = "analytics"
              /\ responses[1].rawData = ga4Data[1]
              /\ responses[1].query = ga4Params[1]

C2_Witness ==
    /\ pc = "done"
    /\ trace = AllStages
    /\ IsQuery(ga4Params[1])
    /\ Len(ga4Data[1].rows) = 1
    /\ responses[1].type = "analytics"

\* C3: a failure of the executor ends the request: the formatter is not
\* called, interpreter and executor are not called again, and the single
\* response is the generic failure, with the error's message as details only
\* when NODE_ENV is "development".
C3_ExecutorFailureTerminal ==
    "execute.throw" \in Range(trace) =>
        /\ pc = "done"
        /\ trace = <<"interpret", "interpret.ret", "execute", "execute.throw">>
        /\ caught # None
        /\ Len(responses) = 1
        /\ responses[1].status = 500
        /\ responses[1].type = "none"
        /\ responses[1].content = Undef
        /\ responses[1].error = Str(GenericFailure)
        /\ nodeEnv = "development" => responses[1].details = Str(caught[1])
        /\ nodeEnv # "development" => responses[1].details = Undef

C3_Witness ==
    /\ "execute.throw" \in Range(trace)
    /\ gaErr = Some(<<"not", "found">>)
    /\ nodeEnv = "production"
    /\ responses[1].status = 500

\* C4: every response is a text payload with a string content, an analytics
\* payload with a string content, or a short error string; the content is
\* never an error object or a provider error body.
C4_ThreeShapes ==
    \A i \in 1..Len(responses) :
        \/ /\ responses[i].type = "text"
           /\ responses[i].content.t = "string"
        \/ /\ responses[i].type = "analytics"
           /\ responses[i].content.t = "string"
        \/ /\ responses[i].type = "none"
           /\ responses[i].status >= 400
           /\ responses[i].error.t = "string"

\* C5: processQuery never throws, as interpreter or as formatter.
C5_NeverThrows ==
    /\ "interpret.throw" \notin Range(trace)
    /\ "format.throw" \notin Range(trace)

Variants(r) ==
    {v \in {"query", "text", "error"} :
        \/ v = "query" /\ IsQuery(r)
        \/ v = "text" /\ IsText(r)
        \/ v = "error" /\ IsError(r)}

\* C6: an interpreter result is exactly one of Query, Text and Error, and the
\* executor is called only on a Query.
C6_ExactlyOneVariant ==
    Returned =>
        /\ Cardinality(Variants(ga4Params[1])) = 1
        /\ "execute" \in Range(trace) => IsQuery(ga4Params[1])

NoBraces(s) ==
    ~ \E i \in 1..Len(s), j \in 1..Len(s) : i < j /\ s[i] = LB /\ s[j] = RB

\* C7: a reply with no "{...}" substring, or whose substring from the first
\* "{" to the last "}" is not valid JSON, is returned as the Text variant
\* holding the whole reply.
C7_MalformedIsText ==
    pc = "parsed" =>
        ((IF NoBraces(text) THEN TRUE
          ELSE ~ValidJson(SubSeq(text, FirstLB(text), LastRB(text))))
         => ga4Params = Some(TextResult(text)))

C7_Witness ==
    /\ pc = "parsed"
    /\ text = <<LB, TypeQuery, RB, Word, RB>>
    /\ ga4Params = Some(TextResult(text))

NotSystem(m) == m.role # "system"

\* C8: the completion request holds the last min(8, length) history entries
\* in their order, then the new message as the final user turn.
C8_LastEightForwarded ==
    pc = "built" =>
        LET h == history.v
            n == Min(HistoryWindow, Len(h))
            turns == SelectSeq(sent.messages, NotSystem)
        IN  /\ Len(turns) = n + 1
            /\ \A i \in 1..n :
                  /\ turns[i].content = h[Len(h) - n + i].content
                  /\ turns[i].role = IF h[Len(h) - n + i].role = "user"
                                     THEN "user" ELSE AssistantRole(provider)
            /\ turns[n + 1] = [role |-> "user", content |-> message]

C8_Witness ==
    /\ pc = "built"
    /\ Len(history.v) = HistoryWindow + 2
    /\ history.v[1].role = "user"
    /\ history.v[3].role = "system"
    /\ Len(sent.messages) >= HistoryWindow + 1

ContainsSeq(hay, needle) ==
    \E i \in 1..(Len(hay) - Len(needle) + 1) :
        SubSeq(hay, i, i + Len(needle) - 1) = needle

\* C9: when the completion call of the interpreter fails, the result is the
\* Error variant and the provider's exception text is not part of it.
C9_NoRawProviderText ==
    (aiErr # None /\ trace = <<"interpret", "interpret.ret">>) =>
        /\ IsError(ga4Params[1])
        /\ ~(Len(aiErr[1]) > 0 /\ ContainsSeq(ga4Params[1].error.v, aiErr[1]))

Lower(w) ==
    CASE w \in {"Permission", "PERMISSION"} -> "permission"
      [] w = "DENIED" -> "denied"
      [] OTHER -> w

MentionsPermission(msg) == \E i \in 1..Len(msg) : Lower(msg[i]) = "permission"

\* C10: when runReport fails with a message containing "permission" in any
\* letter casing, queryGA4 throws the permission-denied error.
C10_PermissionAnyCase ==
    (gaErr # None /\ MentionsPermission(gaErr[1])) => caught = Some(PermissionDenied)

\* C15: on the analytics path the content of the response is the text the
\* model returned for the formatting call, unmodified, the empty text included.
C15_ContentIsReply ==
    (pc = "done" /\ trace = AllStages /\ aiErr = None) =>
        responses[1].content = Str(text)

\* C17: a request whose message is missing, not a string, empty or longer
\* than 2000 characters is answered 400 with no stage called; a string of 1 to
\* 2000 characters reaches the interpreter.
C17_ValidationBeforeStages ==
    pc # "idle" =>
        IF message.t # "string" \/ message.len < 1 \/ message.len > 2000
        THEN /\ pc = "done"
             /\ Len(responses) = 1
             /\ responses[1].status = 400
             /\ responses[1].error.t = "string"
             /\ trace = <<>>
        ELSE /\ Len(trace) >= 1
             /\ trace[1] = "interpret"

C17_Witness ==
    /\ pc = "done"
    /\ message = UserText(2001)
    /\ responses[1].status = 400
    /\ trace = <<>>

\* C18: a request that reached the handler has exactly one response when the
\* handler has finished, on every path, and none is sent before.
C18_ExactlyOneResponse ==
    /\ pc = "done" => Len(responses) = 1
    /\ pc \in {"interpreting", "executing", "formatting"} => Len(responses) = 0

C18_Witness ==
    /\ pc = "done"
    /\ trace = AllStages
    /\ aiErr # None
    /\ Len(responses) = 1

Count(q, e) == Cardinality({i \in 1..Len(q) : q[i] = e})

\* C13: over one request the completion API is called at most twice and
\* runReport at most once; each stage that issued its call issued exactly one
\* and no call is repeated after a failure.
C13_OneCallPerStage ==
    /\ completionCalls <= 2
    /\ reportCalls <= 1
    /\ completionCalls =
          Count(trace, "interpret") - Count(trace, "interpret.throw")
          + Count(trace, "format")
    /\ reportCalls =
          IF pc = "executing" \/ "execute.ret" \in Range(trace) \/ gaErr # None
          THEN 1 ELSE 0
    /\ Count(trace, "interpret") <= 1
    /\ Count(trace, "execute") <= 1
    /\ Count(trace, "format") <= 1

C13_Witness ==
    /\ pc = "done"
    /\ trace = AllStages
    /\ completionCalls = 2
    /\ reportCalls = 1
    /\ aiErr # None

\* C11: each unset field of the query spec is replaced by its default in the
\* request (dimensions ["date"], metrics ["totalUsers","sessions"], startDate
\* "7daysAgo", endDate "yesterday", limit 100, and without a supplied ordering
\* one entry by the first metric of the defaulted list, descending); supplied
\* fields and a supplied non-empty orderBys are passed through.
C11_DefaultsFilled ==
    pc = "queried" =>
        LET p == ga4Params[1]
            q == request[1]
            dims == IF p.dimensions = Undef THEN <<"date">> ELSE p.dimensions.v
            mets == IF p.metrics = Undef THEN <<"totalUsers", "sessions">>
                    ELSE p.metrics.v
        IN  /\ q.dimensions = [i \in 1..Len(dims) |-> [name |-> dims[i]]]
            /\ q.metrics = [i \in 1..Len(mets) |-> [name |-> mets[i]]]
            /\ Len(q.dateRanges) = 1
            /\ q.dateRanges[1].startDate =
                  IF p.startDate = Undef THEN Str(<<"7daysAgo">>) ELSE p.startDate
            /\ q.dateRanges[1].endDate =
                  IF p.endDate = Undef THEN Str(<<"yesterday">>) ELSE p.endDate
            /\ q.limit = IF p.limit = Undef THEN Number(100) ELSE p.limit
            /\ p.orderBys = Undef =>
                  /\ Len(q.orderBys) = 1
                  /\ q.orderBys[1].desc = TRUE
                  /\ Len(mets) > 0 => q.orderBys[1].metric.metricName = Some(mets[1])
            /\ (p.orderBys # Undef /\ Len(p.orderBys.v) > 0) => q.orderBys = p.orderBys.v

C11_Witness ==
    /\ pc = "queried"
    /\ ga4Params[1].metrics = [t |-> "array", v |-> <<"sessions">>]
    /\ ga4Params[1].dimensions = Undef
    /\ ga4Params[1].limit = Undef
    /\ ga4Params[1].orderBys = Undef
    /\ request[1].limit = Number(100)
    /\ request[1].orderBys = <<[metric |-> [metricName |-> Some("sessions")], desc |-> TRUE]>>

\* the reading of a positional metric value: its number when the string
\* denotes one (the empty string reads as 0), else the string itself
Reading(raw) ==
    IF raw = "" THEN Number(0)
    ELSE IF raw \in DOMAIN Numeric THEN Number(Numeric[raw])
    ELSE Str(<<raw>>)

PositionalRows(distinctOnly) ==
    pc = "queried" =>
        LET mets == Destructure(ga4Params[1]).metrics
            N == Len(mets)
        IN  \A r \in 1..Len(report[1].rows) :
                LET values == report[1].rows[r].metricValues
                    parsed == ga4Data[1].rows[r]
                IN  (/\ Len(values) = N
                     /\ distinctOnly => Cardinality(Range(mets)) = N)
                    => /\ Cardinality(DOMAIN parsed \cap Range(mets)) = N
                       /\ \A i \in 1..N : parsed[mets[i]] = Reading(values[i])

\* C12 as stated: for every query spec with N metrics and every row of N
\* positional values, the row mapping has exactly N metric keys and the value
\* under the i-th metric name is the i-th positional value.
C12_PositionalAnyMetrics == PositionalRows(FALSE)

\* C12 as amended: the same for N pairwise distinct metric names.
C12_PositionalDistinctMetrics == PositionalRows(TRUE)

C12_Witness ==
    /\ pc = "queried"
    /\ ga4Params[1].metrics = [t |-> "array", v |-> <<"totalUsers", "sessions">>]
    /\ Len(report[1].rows) = 1
    /\ report[1].rows[1].metricValues = <<"7", "n/a">>
    /\ ga4Data[1].rows[1]["totalUsers"] = Number(7)
    /\ ga4Data[1].rows[1]["sessions"] = Str(<<"n/a">>)

NotScheme(part) == part # "Bearer "

\* the token a request carries in its Authorization header (the header
\* without the scheme word) or in its token query parameter
CarriesToken(req, token) ==
    \/ req.authorization # None /\ SelectSeq(req.authorization[1], NotScheme) = <<token>>
    \/ req.token = Some(<<token>>)

\* C16: with TEAM_ACCESS_TOKEN configured, the handler of a protected route
\* runs only if the Authorization header or the token query parameter carries
\* the configured token, and every other request is answered 401 without the
\* handler; with no token configured every request reaches the handler.
C16_TokenGuardsHandlers ==
    pc = "authed" =>
        /\ authResult \in {"handler", "401"}
        /\ teamToken = "" => authResult = "handler"
        /\ (teamToken # "" /\ authResult = "handler") => CarriesToken(authReq[1], teamToken)
        /\ (teamToken # "" /\ ~CarriesToken(authReq[1], teamToken)) => authResult = "401"

C16_Witness ==
    /\ pc = "authed"
    /\ teamToken = "t1"
    /\ authReq[1].route = "/api/chat"
    /\ authReq[1].authorization = Some(<<"Bearer ", "t1">>)
    /\ authReq[1].token = None
    /\ authResult = "handler"

\* the handle a module variable holds now
Current(kind) == IF kind = "completion" THEN client ELSE analyticsClient

\* C14: under any interleaving of concurrently handled requests each client
\* handle is constructed at most once; once set it is never replaced or reset,
\* and every call of getClient has returned that same handle.
C14_HandlesBuiltOnce ==
    \A kind \in HandleKinds :
        /\ built[kind] <= 1
        /\ Cardinality(handed[kind]) <= 1
        /\ built[kind] = 1 <=> Current(kind) # NoHandle
        /\ handed[kind] # {} => handed[kind] = {Current(kind)}

C14_Witness ==
    /\ reqs[1] = "formatting"
    /\ reqs[2] = "executing"
    /\ built = [k \in HandleKinds |-> 1]
    /\ handed["completion"] = {Construct("completion", 1)}
    /\ handed["analytics"] = {Construct("analytics", 1)}

====
